---- MODULE Spec2Model ----
(***************************************************************************)
(* Model of the colour-quantization and grid-assembly pipeline of the      *)
(* needlepoint pattern converter (src/app.js): ColorBox, medianCut,        *)
(* findNearestColor, rgbToHex and the classification / code assembly part  *)
(* of processImage.                                                        *)
(* Further sections model the saved project list (addProject and the      *)
(* other storage functions of src/app.js) and the editing of a shown       *)
(* pattern (context menu, undo, project load of src/unnamed/part_001).     *)
(*                                                                         *)
(* A ColorBox is represented by its pixel list; its bounds, longestAxis    *)
(* and volume are derived from the list exactly as computeBounds does.     *)
(* Strings (hex colours, codes) are sequences of one-character strings.    *)
(* A JavaScript Map is a sequence of <<key, value>> entries in insertion   *)
(* order; a plain object is a function from its keys.                      *)
(* Array.prototype.sort is the stable sort of ECMAScript 2019.             *)
(***************************************************************************)
EXTENDS Integers, Sequences, FiniteSets, TLC

VARIABLES pixels, targetHeight, targetWidth, maxColors,
          pc, boxes, palette, result, prev,
          projects, quota, clock, saved, lastAdded, removals,
          current, listed, stored, actionHistory, currentProjectId,
          loadedImage, convertDisabled, visibleSteps, timers, loading,
          selections, inputValue, newProjectAt

coreVars == <<pixels, targetHeight, targetWidth, maxColors,
              pc, boxes, palette, result>>
editVars == <<current, listed, stored, actionHistory, currentProjectId>>
storeVars == <<projects, quota, clock, saved, lastAdded, removals>>
revealVars == <<loadedImage, convertDisabled, visibleSteps, timers, loading,
                selections, inputValue, newProjectAt>>
vars == <<pixels, targetHeight, targetWidth, maxColors,
          pc, boxes, palette, result, prev,
          projects, quota, clock, saved, lastAdded, removals,
          current, listed, stored, actionHistory, currentProjectId,
          loadedImage, convertDisabled, visibleSteps, timers, loading,
          selections, inputValue, newProjectAt>>

----------------------------------------------------------------------------
(* Bounds of the model *)

MaxLen == 4
MaxDim == 2
MaxColorsIn == 3
RepMaxLen == 3
RepMaxColors == 2

(* The RGB triples the pixel buffers are drawn from *)
PixelValues == { <<0, 0, 0>>, <<255, 255, 255>>, <<255, 0, 0>>, <<0, 128, 255>> }

RepPixelValues == { <<255, 0, 0>>, <<0, 128, 255>> }

(* nearly equal colours *)
TiePixelValues == { <<0, 0, 0>>, <<1, 0, 0>>, <<2, 0, 0>>, <<0, 2, 0>> }

SeqsUpTo(S, n) == UNION { [1..k -> S] : k \in 0..n }

MaxColorsValues == { 0 - 1, 0 } \cup (1..MaxColorsIn)

----------------------------------------------------------------------------
(* ColorBox *)

Chan(box, c) == { box[i][c + 1] : i \in 1..Len(box) }

SetMin(S) == CHOOSE m \in S : \A x \in S : m <= x
SetMax(S) == CHOOSE m \in S : \A x \in S : m >= x

(* computeBounds: min starts at 255 and max at 0 *)
chanRange(box, c) == SetMax(Chan(box, c) \cup {0}) - SetMin(Chan(box, c) \cup {255})

rRange(box) == chanRange(box, 0)
gRange(box) == chanRange(box, 1)
bRange(box) == chanRange(box, 2)

longestAxisStrict(box) ==
  IF rRange(box) > gRange(box) /\ rRange(box) > bRange(box) THEN 0
  ELSE IF gRange(box) > rRange(box) /\ gRange(box) > bRange(box) THEN 1
  ELSE 2

longestAxisGreenFirst(box) ==
  IF gRange(box) >= rRange(box) /\ gRange(box) >= bRange(box) THEN 1
  ELSE IF rRange(box) >= gRange(box) /\ rRange(box) >= bRange(box) THEN 0
  ELSE 2

longestAxis(box) ==
  IF rRange(box) >= gRange(box) /\ rRange(box) >= bRange(box) THEN 0
  ELSE IF gRange(box) >= rRange(box) /\ gRange(box) >= bRange(box) THEN 1
  ELSE 2

volume(box) == rRange(box) * gRange(box) * bRange(box)

RECURSIVE InsertByAxisUnstable(_, _, _)
InsertByAxisUnstable(s, x, axis) ==
  IF s = <<>> THEN <<x>>
  ELSE IF s[Len(s)][axis + 1] - x[axis + 1] >= 0
       THEN Append(InsertByAxisUnstable(SubSeq(s, 1, Len(s) - 1), x, axis), s[Len(s)])
       ELSE Append(s, x)

(* insertion of x behind every element whose key is not greater: stable *)
RECURSIVE InsertByAxis(_, _, _)
InsertByAxis(s, x, axis) ==
  IF s = <<>> THEN <<x>>
  ELSE IF s[Len(s)][axis + 1] - x[axis + 1] > 0
       THEN Append(InsertByAxis(SubSeq(s, 1, Len(s) - 1), x, axis), s[Len(s)])
       ELSE Append(s, x)

RECURSIVE SortByAxis(_, _)
SortByAxis(s, axis) ==
  IF s = <<>> THEN <<>>
  ELSE InsertByAxis(SortByAxis(SubSeq(s, 1, Len(s) - 1), axis), s[Len(s)], axis)

splitNoCut(box) ==
  LET axis == longestAxis(box)
      sorted == SortByAxis(box, axis)
  IN  << <<>>, sorted >>

splitOverlap(box) ==
  LET axis == longestAxis(box)
      sorted == SortByAxis(box, axis)
      mid == Len(sorted) \div 2
  IN  << SubSeq(sorted, 1, mid), SubSeq(sorted, mid, Len(sorted)) >>

split(box) ==
  LET axis == longestAxis(box)
      sorted == SortByAxis(box, axis)
      mid == Len(sorted) \div 2
  IN  << SubSeq(sorted, 1, mid), SubSeq(sorted, mid + 1, Len(sorted)) >>

(* split sorts a copy, [...this.pixels]: the array of the split box, which  *)
(* for the first box is the caller's buffer itself, keeps its order.  px is *)
(* the caller's buffer, bs the box list, maxIdx the 0-based index of the    *)
(* box being split                                                          *)
PixelsAfterSplit(px, bs, maxIdx) == px

RECURSIVE ChanSum(_, _)
ChanSum(box, c) ==
  IF box = <<>> THEN 0
  ELSE ChanSum(SubSeq(box, 1, Len(box) - 1), c) + box[Len(box)][c + 1]

MathRoundHalfDown(sum, n) == (2 * sum + n - 1) \div (2 * n)

MathFloor(sum, n) == sum \div n

(* Math.round(sum / n) for sum >= 0, n > 0: halves round up *)
MathRound(sum, n) == (2 * sum + n) \div (2 * n)

average(box) ==
  LET n == Len(box)
  IN  << MathRound(ChanSum(box, 0), n),
         MathRound(ChanSum(box, 1), n),
         MathRound(ChanSum(box, 2), n) >>

----------------------------------------------------------------------------
(* medianCut *)

RECURSIVE SelectFromLastTie(_, _, _, _)
SelectFromLastTie(bs, i, maxVolume, maxIdx) ==
  IF i >= Len(bs) THEN maxIdx
  ELSE IF Len(bs[i + 1]) > 1 /\ volume(bs[i + 1]) >= maxVolume
       THEN SelectFromLastTie(bs, i + 1, volume(bs[i + 1]), i)
       ELSE SelectFromLastTie(bs, i + 1, maxVolume, maxIdx)

RECURSIVE SelectFromAnySize(_, _, _, _)
SelectFromAnySize(bs, i, maxVolume, maxIdx) ==
  IF i >= Len(bs) THEN maxIdx
  ELSE IF Len(bs[i + 1]) >= 1 /\ volume(bs[i + 1]) > maxVolume
       THEN SelectFromAnySize(bs, i + 1, volume(bs[i + 1]), i)
       ELSE SelectFromAnySize(bs, i + 1, maxVolume, maxIdx)

(* the selection loop: i is the 0-based index, the result is maxIdx *)
RECURSIVE SelectFrom(_, _, _, _)
SelectFrom(bs, i, maxVolume, maxIdx) ==
  IF i >= Len(bs) THEN maxIdx
  ELSE IF Len(bs[i + 1]) > 1 /\ volume(bs[i + 1]) > maxVolume
       THEN SelectFrom(bs, i + 1, volume(bs[i + 1]), i)
       ELSE SelectFrom(bs, i + 1, maxVolume, maxIdx)

SelectBoxFromZero(bs) == SelectFrom(bs, 0, 0, 0 - 1)

SelectBox(bs) == SelectFrom(bs, 0, 0 - 1, 0 - 1)

(* the while condition of line 71 *)
LoopCondInclusive(bs, mc) == Len(bs) <= mc

LoopCond(bs, mc) == Len(bs) < mc

SplicePush(bs, maxIdx, pair) ==
  SubSeq(bs, 1, maxIdx) \o SubSeq(bs, maxIdx + 2, Len(bs)) \o pair

(* boxes.splice(maxIdx, 1, box1, box2) *)
Splice(bs, maxIdx, pair) ==
  SubSeq(bs, 1, maxIdx) \o pair \o SubSeq(bs, maxIdx + 2, Len(bs))

AveragesReversed(bs) == [ i \in 1..Len(bs) |-> average(bs[Len(bs) + 1 - i]) ]

Averages(bs) == [ i \in 1..Len(bs) |-> average(bs[i]) ]

----------------------------------------------------------------------------
(* findNearestColor *)

Infinity == 3 * 255 * 255 + 1

Dist(p, q) ==
  (p[1] - q[1]) * (p[1] - q[1]) + (p[2] - q[2]) * (p[2] - q[2])
    + (p[3] - q[3]) * (p[3] - q[3])

RECURSIVE NearestFromNoMin(_, _, _, _, _)
NearestFromNoMin(p, pal, i, minDist, nearest) ==
  IF i > Len(pal) THEN nearest
  ELSE IF Dist(p, pal[i]) < minDist
       THEN NearestFromNoMin(p, pal, i + 1, minDist, pal[i])
       ELSE NearestFromNoMin(p, pal, i + 1, minDist, nearest)

RECURSIVE NearestFromLastTie(_, _, _, _, _)
NearestFromLastTie(p, pal, i, minDist, nearest) ==
  IF i > Len(pal) THEN nearest
  ELSE IF Dist(p, pal[i]) <= minDist
       THEN NearestFromLastTie(p, pal, i + 1, Dist(p, pal[i]), pal[i])
       ELSE NearestFromLastTie(p, pal, i + 1, minDist, nearest)

RECURSIVE NearestFrom(_, _, _, _, _)
NearestFrom(p, pal, i, minDist, nearest) ==
  IF i > Len(pal) THEN nearest
  ELSE IF Dist(p, pal[i]) < minDist
       THEN NearestFrom(p, pal, i + 1, Dist(p, pal[i]), pal[i])
       ELSE NearestFrom(p, pal, i + 1, minDist, nearest)

(* called only with a non-empty palette: an empty buffer has no pixel to classify *)
findNearestColor(p, pal) == NearestFrom(p, pal, 1, Infinity, pal[1])

----------------------------------------------------------------------------
(* rgbToHex and the code format *)

HexDigits == << "0", "1", "2", "3", "4", "5", "6", "7",
                "8", "9", "A", "B", "C", "D", "E", "F" >>

RECURSIVE ToBase(_, _)
ToBase(x, base) ==
  IF x < base THEN << HexDigits[x + 1] >>
  ELSE Append(ToBase(x \div base, base), HexDigits[(x % base) + 1])

RECURSIVE padStart(_, _, _)
padStart(s, n, ch) == IF Len(s) >= n THEN s ELSE padStart(<<ch>> \o s, n, ch)

rgbToHex(p) ==
  << "#" >> \o padStart(ToBase(p[1], 16), 2, "0")
            \o padStart(ToBase(p[2], 16), 2, "0")
            \o padStart(ToBase(p[3], 16), 2, "0")

(* `C${String(idx + 1).padStart(2, '0')}` with the 0-based idx *)
CodeOf(idx) == << "C" >> \o padStart(ToBase(idx + 1, 10), 2, "0")

----------------------------------------------------------------------------
(* processImage: classification and assembly *)

(* number of pixels the two nested loops read *)
CellCount(h, w) == IF h > 0 /\ w > 0 THEN h * w ELSE 0

ClassifiedHexOfPixel(px, pal, pixelIdx) == rgbToHex(px[pixelIdx + 1])

ClassifiedHex(px, pal, pixelIdx) == rgbToHex(findNearestColor(px[pixelIdx + 1], pal))

(* colorCounts.set(hex, (colorCounts.get(hex) || 0) + 1) on a Map *)
MapHas(m, k) == \E i \in 1..Len(m) : m[i][1] = k
MapIndex(m, k) == CHOOSE i \in 1..Len(m) : m[i][1] = k
MapGet(m, k) == m[MapIndex(m, k)][2]

TallyNoIncrement(m, hex) ==
  IF MapHas(m, hex) THEN m ELSE Append(m, << hex, 1 >>)

TallyPerPixel(m, hex) == Append(m, << hex, 1 >>)

Tally(m, hex) ==
  IF MapHas(m, hex)
  THEN [ m EXCEPT ![MapIndex(m, hex)] = << hex, m[MapIndex(m, hex)][2] + 1 >> ]
  ELSE Append(m, << hex, 1 >>)

RECURSIVE CountColorsReused(_, _, _)
CountColorsReused(px, pal, n) ==
  IF n = 0
  THEN [ i \in 1..result.numColors |->
           << result.colorMap[CodeOf(i - 1)], result.colorCounts[CodeOf(i - 1)] >> ]
  ELSE Tally(CountColorsReused(px, pal, n - 1), ClassifiedHex(px, pal, n - 1))

RECURSIVE CountColors(_, _, _)
CountColors(px, pal, n) ==
  IF n = 0 THEN <<>>
  ELSE Tally(CountColors(px, pal, n - 1), ClassifiedHex(px, pal, n - 1))

GridDataByColumn(px, pal, h, w) ==
  [ row \in 1..(IF h > 0 THEN h ELSE 0) |->
      [ col \in 1..(IF w > 0 THEN w ELSE 0) |->
          ClassifiedHex(px, pal, (col - 1) * h + (row - 1)) ] ]

GridData(px, pal, h, w) ==
  [ row \in 1..(IF h > 0 THEN h ELSE 0) |->
      [ col \in 1..(IF w > 0 THEN w ELSE 0) |->
          ClassifiedHex(px, pal, (row - 1) * w + (col - 1)) ] ]

(* [...entries].sort((a, b) => b[1] - a[1]): stable, descending count *)
RECURSIVE InsertByCountTiesFirst(_, _)
InsertByCountTiesFirst(s, x) ==
  IF s = <<>> THEN <<x>>
  ELSE IF x[2] - s[Len(s)][2] >= 0
       THEN Append(InsertByCountTiesFirst(SubSeq(s, 1, Len(s) - 1), x), s[Len(s)])
       ELSE Append(s, x)

RECURSIVE InsertByCountAscending(_, _)
InsertByCountAscending(s, x) ==
  IF s = <<>> THEN <<x>>
  ELSE IF s[Len(s)][2] - x[2] > 0
       THEN Append(InsertByCountAscending(SubSeq(s, 1, Len(s) - 1), x), s[Len(s)])
       ELSE Append(s, x)

RECURSIVE InsertByCount(_, _)
InsertByCount(s, x) ==
  IF s = <<>> THEN <<x>>
  ELSE IF x[2] - s[Len(s)][2] > 0
       THEN Append(InsertByCount(SubSeq(s, 1, Len(s) - 1), x), s[Len(s)])
       ELSE Append(s, x)

RECURSIVE SortByCount(_)
SortByCount(s) ==
  IF s = <<>> THEN <<>>
  ELSE InsertByCount(SortByCount(SubSeq(s, 1, Len(s) - 1)), s[Len(s)])

SortedColors(counts) ==
  LET sorted == SortByCount(counts)
  IN  [ i \in 1..Len(sorted) |->
          [ code |-> CodeOf(i - 1), hex |-> sorted[i][1], count |-> sorted[i][2] ] ]

HexToCode(sc, hex) == sc[CHOOSE i \in 1..Len(sc) : sc[i].hex = hex].code

Codes(sc) == { sc[i].code : i \in 1..Len(sc) }

(* a later entry with the same code overwrites an earlier one *)
LastWith(sc, code) ==
  CHOOSE i \in 1..Len(sc) :
    /\ sc[i].code = code
    /\ \A j \in 1..Len(sc) : sc[j].code = code => j <= i

Assemble(px, pal, h, w) ==
  LET gridData == GridData(px, pal, h, w)
      colorCounts == CountColors(px, pal, CellCount(h, w))
      sortedColors == SortedColors(colorCounts)
  IN  [ grid |-> [ r \in DOMAIN gridData |->
                     [ c \in DOMAIN gridData[r] |-> HexToCode(sortedColors, gridData[r][c]) ] ],
        colorMap |-> [ code \in Codes(sortedColors) |->
                         sortedColors[LastWith(sortedColors, code)].hex ],
        colorCounts |-> [ code \in Codes(sortedColors) |->
                            sortedColors[LastWith(sortedColors, code)].count ],
        numColors |-> Len(sortedColors) ]

NoResult == [ grid |-> <<>>, colorMap |-> <<>>, colorCounts |-> <<>>, numColors |-> 0 ]

----------------------------------------------------------------------------
(* The pipeline as a state machine.  pc is the position of one invocation:  *)
(* "call" before medianCut, "loop" inside its while loop, "classify" after  *)
(* it returned the palette, "done" after processImage returned, "threw"     *)
(* after it threw.  result is currentResult, the value the caller keeps.    *)

(* no project object exists (none saved, none listed in the sidebar) *)
NoProject == [ grid |-> <<>>, colorMap |-> <<>>, colorCounts |-> <<>> ]

(* the page before a conversion is shown: currentResult refers to no       *)
(* object, the sidebar lists no project, the undo history is empty and      *)
(* currentProjectId is null (0)                                             *)
NothingShown ==
  /\ current = "none"
  /\ listed = NoProject
  /\ stored = NoProject
  /\ actionHistory = <<>>
  /\ currentProjectId = 0

(* the page before an image is chosen: loadedImage is null (0), the file   *)
(* input is empty (0), the convert button is disabled, no step group is    *)
(* visible, no timer and no file read is pending; newProjectAt is -1 while *)
(* New Project has not been clicked, or an image chosen after the last     *)
(* click has finished loading, and else the number of images that had been *)
(* chosen when New Project was last clicked                                *)
NothingLoaded ==
  /\ loadedImage = 0
  /\ inputValue = 0
  /\ convertDisabled = TRUE
  /\ visibleSteps = {}
  /\ timers = <<>>
  /\ loading = {}
  /\ selections = 0
  /\ newProjectAt = -1

(* the limit of the stored project list *)
ProjectLimit == 20

(* local storage before any project is saved: getItem returns null, and    *)
(* the quota (counted in projects) is not reached by a full list            *)
StorageUnused ==
  /\ projects = <<>>
  /\ quota = ProjectLimit
  /\ clock = 0
  /\ saved = FALSE
  /\ lastAdded = 0
  /\ removals = 0

TypeOK ==
  /\ pixels \in Seq(PixelValues \cup TiePixelValues)
  /\ targetHeight \in Nat
  /\ targetWidth \in Nat
  /\ maxColors \in Int
  /\ boxes \in Seq(Seq(PixelValues \cup TiePixelValues))
  /\ palette \in Seq(Seq(0..255))
  /\ pc \in { "idle", "call", "loop", "classify", "done", "threw", "shown" }
  /\ current \in { "none", "returned", "loaded" }
  /\ loadedImage \in Nat
  /\ inputValue \in Nat
  /\ convertDisabled \in BOOLEAN
  /\ visibleSteps \subseteq { "presets", "dimensions", "colors", "convert" }
  /\ loading \subseteq Nat
  /\ selections \in Nat
  /\ newProjectAt \in Int

Init ==
  /\ pixels \in SeqsUpTo(PixelValues, MaxLen)
  /\ targetHeight \in 0..MaxDim
  /\ targetWidth \in 0..MaxDim
  /\ maxColors \in MaxColorsValues
  /\ pc = "call"
  /\ boxes = <<>>
  /\ palette = <<>>
  /\ result = NoResult
  /\ prev = <<>>
  /\ StorageUnused
  /\ NothingShown
  /\ NothingLoaded

MedianCutEmptyDefault ==
  /\ pc = "call"
  /\ Len(pixels) = 0
  /\ palette' = << << 0, 0, 0 >> >>
  /\ pc' = "classify"
  /\ UNCHANGED << pixels, targetHeight, targetWidth, maxColors, boxes, result, prev, storeVars, editVars, revealVars >>

(* medianCut, line 67: the empty buffer returns the empty palette *)
MedianCutEmpty ==
  /\ pc = "call"
  /\ Len(pixels) = 0
  /\ palette' = <<>>
  /\ pc' = "classify"
  /\ UNCHANGED << pixels, targetHeight, targetWidth, maxColors, boxes, result, prev, storeVars, editVars, revealVars >>

(* medianCut, line 69: one box holding the whole buffer *)
MedianCutEnter ==
  /\ pc = "call"
  /\ Len(pixels) # 0
  /\ boxes' = << pixels >>
  /\ pc' = "loop"
  /\ UNCHANGED << pixels, targetHeight, targetWidth, maxColors, palette, result, prev, storeVars, editVars, revealVars >>

(* one iteration of the while loop that splits a box *)
MedianCutSplit ==
  /\ pc = "loop"
  /\ LoopCond(boxes, maxColors)
  /\ SelectBox(boxes) # 0 - 1
  /\ boxes' = Splice(boxes, SelectBox(boxes), split(boxes[SelectBox(boxes) + 1]))
  /\ pixels' = PixelsAfterSplit(pixels, boxes, SelectBox(boxes))
  /\ UNCHANGED << targetHeight, targetWidth, maxColors, pc, palette, result, prev, storeVars, editVars, revealVars >>

(* loop exit (condition false or break) and the map over the boxes *)
MedianCutReturn ==
  /\ pc = "loop"
  /\ \/ ~ LoopCond(boxes, maxColors)
     \/ SelectBox(boxes) = 0 - 1
  /\ palette' = Averages(boxes)
  /\ pc' = "classify"
  /\ UNCHANGED << pixels, targetHeight, targetWidth, maxColors, boxes, result, prev, storeVars, editVars, revealVars >>

(* the loops read pixels[pixelIdx] past the end: destructuring undefined throws, *)
(* nothing is returned and currentResult is not assigned                        *)
ProcessImageThrow ==
  /\ pc = "classify"
  /\ CellCount(targetHeight, targetWidth) > Len(pixels)
  /\ pc' = "threw"
  /\ UNCHANGED << pixels, targetHeight, targetWidth, maxColors, boxes, palette, result, prev, storeVars, editVars, revealVars >>

ProcessImageReturn ==
  /\ pc = "classify"
  /\ CellCount(targetHeight, targetWidth) <= Len(pixels)
  /\ result' = Assemble(pixels, palette, targetHeight, targetWidth)
  /\ pc' = "done"
  /\ UNCHANGED << pixels, targetHeight, targetWidth, maxColors, boxes, palette, prev, storeVars, editVars, revealVars >>

Next ==
  \/ MedianCutEmpty
  \/ MedianCutEnter
  \/ MedianCutSplit
  \/ MedianCutReturn
  \/ ProcessImageThrow
  \/ ProcessImageReturn

Spec == Init /\ [][Next]_vars


----------------------------------------------------------------------------
(* The pipeline on buffers of nearly equal colours, where a pixel can lie   *)
(* at the same distance from two different palette entries.                 *)

TieMaxLen == 3

InitTie ==
  /\ pixels \in SeqsUpTo(TiePixelValues, TieMaxLen)
  /\ \E hw \in (1..2) \X (0..(TieMaxLen + 1)) :
       /\ hw[1] * hw[2] = Len(pixels) \/ (Len(pixels) = 0 /\ hw = << 1, 1 >>)
       /\ targetHeight = hw[1]
       /\ targetWidth = hw[2]
  /\ maxColors \in 1..MaxColorsIn
  /\ pc = "call"
  /\ boxes = <<>>
  /\ palette = <<>>
  /\ result = NoResult
  /\ prev = <<>>
  /\ StorageUnused
  /\ NothingShown
  /\ NothingLoaded

SpecTie == InitTie /\ [][Next]_vars

----------------------------------------------------------------------------
(* Repeated invocations: the caller invokes the pipeline again after an     *)
(* invocation has ended.  Locals of the earlier invocation (boxes, palette) *)
(* and currentResult stay in the state until the code overwrites them; prev *)
(* records the input and the outcome of the invocation that just ended.     *)

(* the shapes a buffer of n pixels is passed with: every h x w = n with at   *)
(* most two rows, and for the empty buffer also the 1 x 1 shape that reads  *)
(* past its end                                                             *)
RepShapes(n) ==
  { hw \in (1..2) \X (0..(n + 1)) : hw[1] * hw[2] = n \/ (n = 0 /\ hw = << 1, 1 >>) }

RepInputs ==
  { in \in [ pixels : SeqsUpTo(RepPixelValues, RepMaxLen),
             h : 1..2, w : 0..(RepMaxLen + 1), mc : 1..RepMaxColors ] :
      << in.h, in.w >> \in RepShapes(Len(in.pixels)) }

InitRepeat ==
  /\ \E in \in RepInputs :
       /\ pixels = in.pixels
       /\ targetHeight = in.h
       /\ targetWidth = in.w
       /\ maxColors = in.mc
  /\ pc = "call"
  /\ boxes = <<>>
  /\ palette = <<>>
  /\ result = NoResult
  /\ prev = <<>>
  /\ StorageUnused
  /\ NothingShown
  /\ NothingLoaded

Reinvoke ==
  /\ pc \in { "done", "threw" }
  /\ \E in \in RepInputs :
       /\ pixels' = in.pixels
       /\ targetHeight' = in.h
       /\ targetWidth' = in.w
       /\ maxColors' = in.mc
  /\ prev' = << [ pixels |-> pixels, h |-> targetHeight, w |-> targetWidth,
                  mc |-> maxColors, pc |-> pc, result |-> result ] >>
  /\ pc' = "call"
  /\ UNCHANGED << boxes, palette, result, storeVars, editVars, revealVars >>

NextRepeat ==
  \/ MedianCutEmpty
  \/ MedianCutEnter
  \/ MedianCutSplit
  \/ MedianCutReturn
  \/ ProcessImageThrow
  \/ ProcessImageReturn
  \/ Reinvoke

SpecRepeat == InitRepeat /\ [][NextRepeat]_vars

----------------------------------------------------------------------------
(* medianCut is synchronous: once called it runs on until it returns        *)
InitIdle ==
  /\ pixels = <<>>
  /\ targetHeight = 0
  /\ targetWidth = 0
  /\ maxColors = 1
  /\ pc = "idle"
  /\ boxes = <<>>
  /\ palette = <<>>
  /\ result = NoResult
  /\ prev = <<>>
  /\ StorageUnused
  /\ NothingShown
  /\ NothingLoaded

(* the call of processImage with its arguments *)
Invoke ==
  /\ pc = "idle"
  /\ \E px \in SeqsUpTo(RepPixelValues, RepMaxLen) :
       \E hw \in RepShapes(Len(px)) :
         /\ pixels' = px
         /\ targetHeight' = hw[1]
         /\ targetWidth' = hw[2]
  /\ maxColors' \in MaxColorsValues
  /\ pc' = "call"
  /\ UNCHANGED << boxes, palette, result, prev, storeVars, editVars, revealVars >>

NextFair ==
  \/ Invoke
  \/ MedianCutEmpty
  \/ MedianCutEnter
  \/ MedianCutSplit
  \/ MedianCutReturn
  \/ ProcessImageThrow
  \/ ProcessImageReturn

(* the steps of medianCut *)
MedianCutStep ==
  \/ MedianCutEmpty
  \/ MedianCutEnter
  \/ MedianCutSplit
  \/ MedianCutReturn

(* MedianCutStep is enabled exactly when pc is "call" or "loop"; weak        *)
(* fairness of MedianCutStep, WF_vars(MedianCutStep), written with that     *)
(* state predicate in place of ENABLED <<MedianCutStep>>_vars               *)
MedianCutFair ==
  \/ []<>(pc \notin { "call", "loop" })
  \/ []<><< MedianCutStep >>_vars

SpecFair == InitIdle /\ [][NextFair]_vars /\ MedianCutFair

----------------------------------------------------------------------------
(* The saved projects (local storage).  projects is the stored list; a      *)
(* project is represented by its id, the value of Date.now() when it was    *)
(* created, and clock is the last value Date.now() has returned.  setItem   *)
(* throws when the serialized list exceeds the quota, which is counted in   *)
(* projects.  removals counts the deleteProject and clearAllProjects calls. *)

MaxClock == 22
MaxRemovals == 2
SmallQuota == 2

QuotaValues == { 0, SmallQuota, ProjectLimit }

getProjects == projects

(* the value saveProjects returns for a list *)
saveProjects(ps) == Len(ps) <= quota

(* the stored list after saveProjects(ps) *)
StoredAfterSave(ps) == IF saveProjects(ps) THEN ps ELSE projects

Pop(ps) == SubSeq(ps, 1, Len(ps) - 1)

UnshiftAtEnd(ps, p) == ps \o << p >>

Unshift(ps, p) == << p >> \o ps

(* while (projects.length > 20) projects.pop() *)
RECURSIVE TrimToLimit(_)
TrimToLimit(ps) ==
  IF Len(ps) > ProjectLimit THEN TrimToLimit(Pop(ps)) ELSE ps

(* the list of the last saveProjects call of addProject: the first call,   *)
(* and while it fails and more than one project is left, without the       *)
(* oldest                                                                   *)
RECURSIVE RetrySave(_)
RetrySave(ps) ==
  IF ~saveProjects(ps) /\ Len(ps) > 1 THEN RetrySave(Pop(ps)) ELSE ps

InitStore ==
  /\ pixels = <<>>
  /\ targetHeight = 0
  /\ targetWidth = 0
  /\ maxColors = 1
  /\ pc = "idle"
  /\ boxes = <<>>
  /\ palette = <<>>
  /\ result = NoResult
  /\ prev = <<>>
  /\ projects = <<>>
  /\ quota \in QuotaValues
  /\ clock = 0
  /\ saved = FALSE
  /\ lastAdded = 0
  /\ removals = 0
  /\ NothingShown
  /\ NothingLoaded

addProject ==
  /\ clock < MaxClock
  /\ clock' = clock + 1
  /\ LET project == clock'
         last == RetrySave(TrimToLimit(Unshift(getProjects, project)))
     IN  /\ lastAdded' = project
         /\ saved' = saveProjects(last)
         /\ projects' = StoredAfterSave(last)
  /\ UNCHANGED << quota, removals, coreVars, prev, editVars, revealVars >>

deleteProject ==
  /\ removals < MaxRemovals
  /\ removals' = removals + 1
  /\ \E k \in 1..Len(projects) :
       projects' = StoredAfterSave(SelectSeq(getProjects, LAMBDA p : p # projects[k]))
  /\ UNCHANGED << quota, clock, saved, lastAdded, coreVars, prev, editVars, revealVars >>

clearAllProjects ==
  /\ removals < MaxRemovals
  /\ removals' = removals + 1
  /\ projects' = StoredAfterSave(<<>>)
  /\ UNCHANGED << quota, clock, saved, lastAdded, coreVars, prev, editVars, revealVars >>

NextStore ==
  \/ addProject
  \/ deleteProject
  \/ clearAllProjects

SpecStore == InitStore /\ [][NextStore]_vars

----------------------------------------------------------------------------
(* Editing the shown pattern (src/unnamed/part_001, the version with the    *)
(* colour context menu and undo; its pipeline differs from src/app.js only  *)
(* in the text of the codes).  pc = "shown" after the convert handler has   *)
(* finished.  current tells which object currentResult refers to: the one   *)
(* processImage returned (result), or the one loadProject built, whose      *)
(* grid, colorMap and colorCounts are those of the project object of the    *)
(* sidebar item (listed).  stored is the copy of the project in local       *)
(* storage.                                                                 *)

MaxHistory == 2

MAX_UNDO_HISTORY == 500

(* the project object the convert handler builds from currentResult *)
ProjectOf(res) ==
  [ grid |-> res.grid, colorMap |-> res.colorMap, colorCounts |-> res.colorCounts ]

(* the object currentResult refers to *)
currentResult ==
  IF current = "returned"
  THEN result
  ELSE [ grid |-> listed.grid, colorMap |-> listed.colorMap,
         colorCounts |-> listed.colorCounts,
         numColors |-> Cardinality(DOMAIN listed.colorMap) ]

MathMax(a, b) == IF a >= b THEN a ELSE b

updateColorCountsKeepOld(counts, oldCode, newCode) ==
  [ counts EXCEPT ![newCode] = @ + 1 ]

updateColorCountsSwapped(counts, oldCode, newCode) ==
  LET less == [ counts EXCEPT ![newCode] = MathMax(0, @ - 1) ]
  IN  [ less EXCEPT ![oldCode] = @ + 1 ]

updateColorCounts(counts, oldCode, newCode) ==
  LET less == [ counts EXCEPT ![oldCode] = MathMax(0, @ - 1) ]
  IN  [ less EXCEPT ![newCode] = @ + 1 ]

pushAction(history, action) ==
  LET pushed == Append(history, action)
  IN  IF Len(pushed) > MAX_UNDO_HISTORY THEN Tail(pushed) ELSE pushed

(* persistProjectUpdate({ grid, colorCounts }): the stored copy of the      *)
(* current project takes the new grid and counts unless it is missing or    *)
(* setItem throws                                                           *)
persistProjectUpdate(grid, counts) ==
  IF stored = NoProject
  THEN stored' = stored
  ELSE \E ok \in BOOLEAN :
         stored' = IF ok THEN [ stored EXCEPT !.grid = grid, !.colorCounts = counts ]
                         ELSE stored

(* updateColorCounts(oldCode, newCode) followed by                          *)
(* applyColorChange(rowIdx, colIdx, newCode), on the object currentResult   *)
(* refers to                                                                *)
applyColorChange(rowIdx, colIdx, oldCode, newCode) ==
  LET counts == updateColorCounts(currentResult.colorCounts, oldCode, newCode)
      grid == [ currentResult.grid EXCEPT ![rowIdx + 1][colIdx + 1] = newCode ]
  IN  /\ IF current = "returned"
         THEN /\ result' = [ result EXCEPT !.grid = grid, !.colorCounts = counts ]
              /\ UNCHANGED listed
         ELSE /\ listed' = [ listed EXCEPT !.grid = grid, !.colorCounts = counts ]
              /\ UNCHANGED result
      /\ persistProjectUpdate(grid, counts)

InitEdit ==
  /\ \E in \in RepInputs :
       /\ pixels = in.pixels
       /\ targetHeight = in.h
       /\ targetWidth = in.w
       /\ maxColors = in.mc
  /\ pc = "call"
  /\ boxes = <<>>
  /\ palette = <<>>
  /\ result = NoResult
  /\ prev = <<>>
  /\ StorageUnused
  /\ NothingShown
  /\ NothingLoaded

(* the convert handler after processImage has returned: the undo history   *)
(* is reset and the project, with Date.now() as the id of a new one, is     *)
(* saved and listed, unless the save fails                                  *)
ConvertShown ==
  /\ pc = "done"
  /\ pc' = "shown"
  /\ current' = "returned"
  /\ actionHistory' = <<>>
  /\ clock' = clock + 1
  /\ currentProjectId' = IF currentProjectId # 0 THEN currentProjectId ELSE clock'
  /\ \E ok \in BOOLEAN :
       /\ stored' = IF ok THEN ProjectOf(result) ELSE NoProject
       /\ listed' = stored'
  /\ UNCHANGED << pixels, targetHeight, targetWidth, maxColors, boxes, palette,
                  result, prev, projects, quota, saved, lastAdded, removals, revealVars >>

(* a click on an item of the colour context menu of the cell (rowIdx,      *)
(* colIdx)                                                                  *)
EditCell ==
  /\ pc = "shown"
  /\ Len(actionHistory) < MaxHistory
  /\ \E rowIdx \in 0..(Len(currentResult.grid) - 1) :
       \E colIdx \in 0..(Len(currentResult.grid[rowIdx + 1]) - 1) :
         \E nextCode \in DOMAIN currentResult.colorMap :
           LET currentCode == currentResult.grid[rowIdx + 1][colIdx + 1]
           IN  /\ nextCode # currentCode
               /\ applyColorChange(rowIdx, colIdx, currentCode, nextCode)
               /\ actionHistory' =
                    pushAction(actionHistory,
                               [ type |-> "color", rowIdx |-> rowIdx, colIdx |-> colIdx,
                                 prevCode |-> currentCode, nextCode |-> nextCode ])
  /\ UNCHANGED << pixels, targetHeight, targetWidth, maxColors, pc, boxes, palette,
                  prev, storeVars, current, currentProjectId, revealVars >>

undoLastAction ==
  /\ pc = "shown"
  /\ actionHistory # <<>>
  /\ LET action == actionHistory[Len(actionHistory)]
     IN  /\ actionHistory' = SubSeq(actionHistory, 1, Len(actionHistory) - 1)
         /\ applyColorChange(action.rowIdx, action.colIdx, action.nextCode, action.prevCode)
  /\ UNCHANGED << pixels, targetHeight, targetWidth, maxColors, pc, boxes, palette,
                  prev, storeVars, current, currentProjectId, revealVars >>

(* a click on the sidebar item of the saved project, whose id is already   *)
(* currentProjectId                                                         *)
loadProject ==
  /\ pc = "shown"
  /\ listed # NoProject
  /\ current' = "loaded"
  /\ actionHistory' = <<>>
  /\ UNCHANGED << coreVars, prev, storeVars, listed, stored, currentProjectId, revealVars >>

NextEdit ==
  \/ MedianCutEmpty
  \/ MedianCutEnter
  \/ MedianCutSplit
  \/ MedianCutReturn
  \/ ProcessImageThrow
  \/ ProcessImageReturn
  \/ ConvertShown
  \/ EditCell
  \/ undoLastAction
  \/ loadProject

SpecEdit == InitEdit /\ [][NextEdit]_vars

----------------------------------------------------------------------------
(* Saving a converted project in the version with currentProjectId          *)
(* (src/unnamed/part_001).  Here a stored project is a record of its id and *)
(* the size of its serialized form, in the unit the quota is counted in;    *)
(* setItem throws when the sizes of the list exceed the quota.  The         *)
(* conversion itself is left out: only the size of the project it yields    *)
(* matters to the storage.                                                  *)

MaxConversions == 3
MaxSize == 3

RECURSIVE TotalSize(_)
TotalSize(ps) ==
  IF ps = <<>> THEN 0 ELSE TotalSize(SubSeq(ps, 1, Len(ps) - 1)) + ps[Len(ps)].size

(* the value saveProjects returns for a list of sized projects *)
saveSized(ps) == TotalSize(ps) <= quota

RECURSIVE RetrySaveSized(_)
RetrySaveSized(ps) ==
  IF ~saveSized(ps) /\ Len(ps) > 1 THEN RetrySaveSized(Pop(ps)) ELSE ps

(* the stored list after if (currentProjectId) saveProjects(getProjects()   *)
(* .filter(p => p.id !== currentProjectId))                                 *)
AfterRemoveCurrent ==
  IF currentProjectId = 0 THEN projects
  ELSE LET others == SelectSeq(projects, LAMBDA p : p.id # currentProjectId)
       IN  IF saveSized(others) THEN others ELSE projects

(* the list of the last saveProjects call of addProject(project) on the    *)
(* stored list from                                                         *)
LastTried(from, project) == RetrySaveSized(TrimToLimit(Unshift(from, project)))

(* the stored list after addProject(project) on the list from *)
AddSized(from, project) ==
  IF saveSized(LastTried(from, project)) THEN LastTried(from, project) ELSE from

InitReconvert ==
  /\ pixels = <<>>
  /\ targetHeight = 0
  /\ targetWidth = 0
  /\ maxColors = 1
  /\ pc = "idle"
  /\ boxes = <<>>
  /\ palette = <<>>
  /\ result = NoResult
  /\ prev = <<>>
  /\ projects = <<>>
  /\ quota \in QuotaValues
  /\ clock = 0
  /\ saved = FALSE
  /\ lastAdded = 0
  /\ removals = 0
  /\ NothingShown
  /\ NothingLoaded

(* the convert handler from the project object on: the id is               *)
(* currentProjectId, or Date.now() for a new project                        *)
ConvertProject ==
  /\ clock < MaxConversions
  /\ clock' = clock + 1
  /\ \E size \in 1..MaxSize :
       LET project == [ id |-> IF currentProjectId # 0 THEN currentProjectId ELSE clock',
                        size |-> size ]
       IN  /\ currentProjectId' = project.id
           /\ lastAdded' = project.id
           /\ projects' = AddSized(AfterRemoveCurrent, project)
           /\ saved' = saveSized(LastTried(AfterRemoveCurrent, project))
  /\ UNCHANGED << quota, removals, coreVars, prev, current, listed, stored, actionHistory, revealVars >>

(* a click on the sidebar item of a stored project *)
SelectProject ==
  /\ \E k \in 1..Len(projects) :
       /\ projects[k].id # currentProjectId
       /\ currentProjectId' = projects[k].id
  /\ UNCHANGED << storeVars, coreVars, prev, current, listed, stored, actionHistory, revealVars >>

(* the New Project button *)
NewProject ==
  /\ currentProjectId # 0
  /\ currentProjectId' = 0
  /\ UNCHANGED << storeVars, coreVars, prev, current, listed, stored, actionHistory, revealVars >>

NextReconvert ==
  \/ ConvertProject
  \/ SelectProject
  \/ NewProject

SpecReconvert == InitReconvert /\ [][NextReconvert]_vars

----------------------------------------------------------------------------
(* Choosing an image, the staggered reveal of the step groups, and New     *)
(* Project (app.js, 787-991).  setTimeout callbacks are kept in timers in  *)
(* the order of their registration, each with the time left until it is    *)
(* due.  Every delay is a multiple of 50 ms, so time advances in steps of  *)
(* 50 ms; the events between two steps happen in any order.                *)

MaxSelections == 2

(* the step groups in the order of their reveal, and the delays of their   *)
(* timers                                                                   *)
RevealSteps == << "presets", "dimensions", "colors", "convert" >>
RevealDelays == << 100, 250, 400, 550 >>

(* the delay of the conversion after a click on the convert button *)
ProcessDelay == 50

TickMs == ProcessDelay

(* setTimeout(callback, delay) *)
setTimeout(ts, callback, delay) ==
  Append(ts, [ callback |-> callback, delay |-> delay, remaining |-> delay ])

(* the four timers that img.onload starts *)
RevealTimers(ts) ==
  setTimeout(setTimeout(setTimeout(setTimeout(ts,
    RevealSteps[1], RevealDelays[1]),
    RevealSteps[2], RevealDelays[2]),
    RevealSteps[3], RevealDelays[3]),
    RevealSteps[4], RevealDelays[4])

(* the timers without the i-th *)
RemoveTimer(ts, i) == SubSeq(ts, 1, i - 1) \o SubSeq(ts, i + 1, Len(ts))

(* the i-th timer is due, and no timer registered before it with a delay   *)
(* no longer than its own is still pending at its deadline                  *)
CanFire(ts, i) ==
  /\ ts[i].remaining = 0
  /\ \A j \in 1..(i - 1) : ts[j].remaining = 0 => ts[j].delay > ts[i].delay

InitReveal ==
  /\ pixels = <<>>
  /\ targetHeight = 1
  /\ targetWidth = 1
  /\ maxColors = 1
  /\ pc = "idle"
  /\ boxes = <<>>
  /\ palette = <<>>
  /\ result = NoResult
  /\ prev = <<>>
  /\ StorageUnused
  /\ NothingShown
  /\ NothingLoaded

(* the change handler of the file input with a chosen file: the step       *)
(* groups are hidden, the button disabled, and the file read starts         *)
imageInputChange ==
  /\ selections < MaxSelections
  /\ selections' = selections + 1
  /\ inputValue' = selections'
  /\ visibleSteps' = {}
  /\ convertDisabled' = TRUE
  /\ current' = "none"
  /\ loading' = loading \cup { selections' }
  /\ UNCHANGED << loadedImage, timers, newProjectAt, coreVars, prev, storeVars,
                  listed, stored, actionHistory, currentProjectId >>

(* the change handler when the chosen file was taken away again *)
imageInputChangeNoFile ==
  /\ inputValue # 0
  /\ inputValue' = 0
  /\ convertDisabled' = TRUE
  /\ UNCHANGED << loadedImage, visibleSteps, timers, loading, selections,
                  newProjectAt, coreVars, prev, storeVars, editVars >>

(* reader.onload and then img.onload of a chosen file: the image becomes   *)
(* loadedImage and the four reveal timers start                             *)
imgOnload ==
  \E img \in loading :
    /\ loading' = loading \ { img }
    /\ loadedImage' = img
    /\ timers' = RevealTimers(timers)
    /\ newProjectAt' = IF newProjectAt >= 0 /\ img > newProjectAt
                       THEN -1 ELSE newProjectAt
    /\ UNCHANGED << convertDisabled, visibleSteps, selections, inputValue,
                    coreVars, prev, storeVars, editVars >>

(* 50 ms pass while no timer is due *)
Tick ==
  /\ timers # <<>>
  /\ \A i \in 1..Len(timers) : timers[i].remaining > 0
  /\ timers' = [ i \in 1..Len(timers) |->
                   [ timers[i] EXCEPT !.remaining = @ - TickMs ] ]
  /\ UNCHANGED << loadedImage, convertDisabled, visibleSteps, loading, selections,
                  inputValue, newProjectAt, coreVars, prev, storeVars, editVars >>

(* the callback of a reveal timer: its step group becomes visible, and the *)
(* last one enables the convert button                                      *)
RevealTimer ==
  \E i \in 1..Len(timers) :
    /\ CanFire(timers, i)
    /\ timers[i].callback # "process"
    /\ timers' = RemoveTimer(timers, i)
    /\ visibleSteps' = visibleSteps \cup { timers[i].callback }
    /\ convertDisabled' = IF timers[i].callback = RevealSteps[4]
                          THEN FALSE ELSE convertDisabled
    /\ UNCHANGED << loadedImage, loading, selections, inputValue, newProjectAt,
                    coreVars, prev, storeVars, editVars >>

(* a click on the enabled convert button: without loadedImage the handler  *)
(* returns, else it disables the button and defers the conversion           *)
convertBtnClick ==
  /\ ~convertDisabled
  /\ loadedImage # 0
  /\ convertDisabled' = TRUE
  /\ timers' = setTimeout(timers, "process", ProcessDelay)
  /\ UNCHANGED << loadedImage, visibleSteps, loading, selections, inputValue,
                  newProjectAt, coreVars, prev, storeVars, editVars >>

(* the deferred conversion: processImage throws on a null image, which is  *)
(* caught; the button is enabled again in both cases                        *)
ProcessTimer ==
  \E i \in 1..Len(timers) :
    /\ CanFire(timers, i)
    /\ timers[i].callback = "process"
    /\ timers' = RemoveTimer(timers, i)
    /\ current' = IF loadedImage # 0 THEN "returned" ELSE current
    /\ convertDisabled' = FALSE
    /\ UNCHANGED << loadedImage, visibleSteps, loading, selections, inputValue,
                    newProjectAt, coreVars, prev, storeVars,
                    listed, stored, actionHistory, currentProjectId >>

(* a click on New Project *)
newProjectBtnClick ==
  /\ inputValue' = 0
  /\ loadedImage' = 0
  /\ current' = "none"
  /\ convertDisabled' = TRUE
  /\ visibleSteps' = {}
  /\ newProjectAt' = selections
  /\ UNCHANGED << timers, loading, selections, coreVars, prev, storeVars,
                  listed, stored, actionHistory, currentProjectId >>

NextReveal ==
  \/ imageInputChange
  \/ imageInputChangeNoFile
  \/ imgOnload
  \/ Tick
  \/ RevealTimer
  \/ convertBtnClick
  \/ ProcessTimer
  \/ newProjectBtnClick

SpecReveal == InitReveal /\ [][NextReveal]_vars

----------------------------------------------------------------------------
(* Properties *)

Black == << 0, 0, 0 >>
White == << 255, 255, 255 >>
Red   == << 255, 0, 0 >>

(* the 2 x 2 scenario buffer, row-major *)
ScenarioBuffer == << Black, White, Black, Red >>

C01 == << "C", "0", "1" >>
C02 == << "C", "0", "2" >>

(* a rows x cols buffer with at least one pixel *)
ValidInput ==
  /\ targetHeight >= 1
  /\ targetWidth >= 1
  /\ Len(pixels) = targetHeight * targetWidth

RECURSIVE SumOver(_, _)
SumOver(f, S) ==
  IF S = {} THEN 0
  ELSE LET x == CHOOSE y \in S : TRUE IN f[x] + SumOver(f, S \ {x})

GridCodes(g) == { g[r][c] : r \in DOMAIN g, c \in 1..targetWidth }

Uniform(px) == \A i, j \in 1..Len(px) : px[i] = px[j]

(* floor(sum/n + 1/2), stated without the division the code uses *)
HalfUp(sum, n) == CHOOSE k \in 0..255 : 2 * n * k <= 2 * sum + n /\ 2 * sum + n < 2 * n * (k + 1)

MeanHalfUp(px) ==
  << HalfUp(ChanSum(px, 0), Len(px)), HalfUp(ChanSum(px, 1), Len(px)),
     HalfUp(ChanSum(px, 2), Len(px)) >>

(* C1: for a non-empty rows x cols buffer and maxColors >= 1 the returned     *)
(* colorCounts sum to rows*cols and every code in grid is a key of colorMap *)
(* and of colorCounts.                                                      *)
C1_CountsSumAndCodesKnown ==
  (pc = "done" /\ ValidInput /\ maxColors >= 1) =>
    /\ SumOver(result.colorCounts, DOMAIN result.colorCounts) = targetHeight * targetWidth
    /\ Len(result.grid) = targetHeight
    /\ GridCodes(result.grid) \subseteq DOMAIN result.colorMap
    /\ GridCodes(result.grid) \subseteq DOMAIN result.colorCounts

C1_Witness ==
  /\ pc = "done" /\ ValidInput /\ maxColors = 3
  /\ Len(pixels) = 4
  /\ result.numColors = 2
  /\ \E code \in DOMAIN result.colorCounts : result.colorCounts[code] = 3

(* C2: for a non-empty buffer and maxColors >= 1 the returned numColors is  *)
(* at most maxColors.                                                       *)
C2_NumColorsAtMostMax ==
  (pc = "done" /\ ValidInput /\ maxColors >= 1) => result.numColors <= maxColors

C2_Witness ==
  /\ pc = "done" /\ ValidInput
  /\ Cardinality({ pixels[i] : i \in 1..Len(pixels) }) = 4
  /\ maxColors = 2
  /\ result.numColors = 2

(* C3: an invocation on the same buffer, rows, cols and maxColors as the    *)
(* invocation before it ends the same way and returns the same grid,        *)
(* colorMap and colorCounts, whatever the earlier invocations left behind.  *)
C3_Deterministic ==
  ( /\ pc \in { "done", "threw" }
    /\ prev # <<>>
    /\ prev[1].pixels = pixels /\ prev[1].h = targetHeight
    /\ prev[1].w = targetWidth /\ prev[1].mc = maxColors ) =>
    /\ prev[1].pc = pc
    /\ pc = "done" =>
         /\ prev[1].result.grid = result.grid
         /\ prev[1].result.colorMap = result.colorMap
         /\ prev[1].result.colorCounts = result.colorCounts

C3_Witness ==
  /\ pc = "done" /\ prev # <<>> /\ prev[1].pc = "done"
  /\ prev[1].pixels = pixels /\ prev[1].h = targetHeight
  /\ prev[1].w = targetWidth /\ prev[1].mc = maxColors
  /\ Len(pixels) = 3
  /\ result.numColors = 2
  /\ boxes # << pixels >>

(* C4: with maxColors = 1 and a non-empty buffer there is exactly one code, *)
(* every grid cell holds it, and its colour is the per-channel mean of all  *)
(* pixels rounded to the nearest integer, halves up.                        *)
C4_SingleColorIsMean ==
  (pc = "done" /\ ValidInput /\ maxColors = 1) =>
    /\ result.numColors = 1
    /\ Cardinality(DOMAIN result.colorMap) = 1
    /\ \A code \in DOMAIN result.colorMap :
         /\ GridCodes(result.grid) = { code }
         /\ result.colorMap[code] = rgbToHex(MeanHalfUp(pixels))

C4_Witness ==
  /\ pc = "done" /\ ValidInput /\ maxColors = 1
  /\ \E c \in 0..2 : (2 * ChanSum(pixels, c)) % (2 * Len(pixels)) = Len(pixels)
  /\ ~ Uniform(pixels)

(* C5: when all pixels of a non-empty buffer are equal and maxColors > 1,   *)
(* numColors is 1 and the one code covers all rows*cols cells, although the *)
(* partitioner has split the buffer into several boxes.                     *)
C5_UniformCollapses ==
  (pc = "done" /\ ValidInput /\ Uniform(pixels) /\ maxColors > 1) =>
    /\ result.numColors = 1
    /\ Cardinality(DOMAIN result.colorCounts) = 1
    /\ \A code \in DOMAIN result.colorCounts :
         /\ result.colorCounts[code] = targetHeight * targetWidth
         /\ GridCodes(result.grid) = { code }

C5_Witness ==
  /\ pc = "done" /\ ValidInput /\ Uniform(pixels) /\ maxColors = 3
  /\ Len(pixels) = 4
  /\ Len(boxes) = 3
  /\ \A i \in 1..Len(boxes) : volume(boxes[i]) = 0

ScenarioCut == pixels = ScenarioBuffer /\ maxColors = 2

(* C6 as stated: for the scenario buffer with maxColors = 2 medianCut       *)
(* returns the palette [(0,0,0), (255,128,0)].                              *)
C6_PaletteAsStated ==
  (ScenarioCut /\ pc \in { "classify", "done", "threw" }) =>
    palette = << << 0, 0, 0 >>, << 255, 128, 0 >> >>

(* C6: for the scenario buffer with maxColors = 2 medianCut performs        *)
(* exactly one split, on the R axis (the stable sort by R puts white before *)
(* red in the second half), and returns the palette                         *)
(* [(0,0,0), (255,128,128)].                                                *)
C6_OneSplitOnR ==
  (ScenarioCut /\ pc # "call") =>
    /\ Len(boxes) <= 2
    /\ pc \in { "classify", "done", "threw" } =>
         /\ longestAxis(pixels) = 0
         /\ boxes = << << Black, Black >>, << White, Red >> >>
         /\ palette = << << 0, 0, 0 >>, << 255, 128, 128 >> >>

C6_Witness ==
  /\ ScenarioCut /\ pc = "classify"
  /\ Len(boxes) = 2
  /\ Len(palette) = 2

(* C7: for the scenario buffer as a 2 x 2 image with maxColors = 2, pixels  *)
(* 0 and 2 are classified to black and pixels 1 and 3 to the second palette *)
(* entry, both colours have count 2, black gets the first code, the grid is *)
(* [C_black, C_other, C_black, C_other] row-major and numColors = 2.        *)
C7_ScenarioGrid ==
  (ScenarioCut /\ targetHeight = 2 /\ targetWidth = 2 /\ pc = "done") =>
    /\ findNearestColor(pixels[1], palette) = Black
    /\ findNearestColor(pixels[3], palette) = Black
    /\ findNearestColor(pixels[2], palette) = palette[2]
    /\ findNearestColor(pixels[4], palette) = palette[2]
    /\ palette[2] # Black
    /\ result.numColors = 2
    /\ result.colorMap = (C01 :> << "#", "0", "0", "0", "0", "0", "0" >>)
                           @@ (C02 :> rgbToHex(palette[2]))
    /\ result.colorCounts = (C01 :> 2) @@ (C02 :> 2)
    /\ result.grid = << << C01, C02 >>, << C01, C02 >> >>

C7_Witness ==
  /\ ScenarioCut /\ targetHeight = 2 /\ targetWidth = 2 /\ pc = "done"
  /\ result.colorMap[C02] = << "#", "F", "F", "8", "0", "8", "0" >>

(* C8 as stated: a call with maxColors < 1 is rejected before any           *)
(* partitioning; it computes no palette and returns no grid.                *)
C8_RejectsMaxColorsBelowOne ==
  maxColors < 1 =>
    /\ pc \notin { "loop", "done" }
    /\ palette = <<>>
    /\ result = NoResult

(* C9: an empty buffer (of a shape with no cell) is not an error: medianCut *)
(* creates no box and returns the empty palette, and processImage returns   *)
(* an empty grid (no rows, or rows without columns), an empty colorMap, an  *)
(* empty colorCounts and numColors = 0.                                     *)
C9_EmptyBufferEmptyResult ==
  (Len(pixels) = 0 /\ CellCount(targetHeight, targetWidth) = 0) =>
    /\ pc # "threw"
    /\ pc # "loop"
    /\ boxes = <<>>
    /\ palette = <<>>
    /\ pc = "done" =>
         /\ Len(result.grid) = targetHeight
         /\ \A r \in 1..Len(result.grid) : result.grid[r] = <<>>
         /\ DOMAIN result.colorMap = {}
         /\ DOMAIN result.colorCounts = {}
         /\ result.numColors = 0

C9_Witness ==
  /\ Len(pixels) = 0 /\ targetHeight = 2 /\ targetWidth = 0
  /\ pc = "done"
  /\ Len(result.grid) = 2

PaletteReturned == pc \in { "classify", "done", "threw" } /\ Len(pixels) > 0

(* C11: for every palette that medianCut produces and every entry p of it,  *)
(* findNearestColor(p, palette) is an RGB value equal to p.                  *)
C11_ClassifyPaletteIdempotent ==
  PaletteReturned =>
    \A i \in 1..Len(palette) : findNearestColor(palette[i], palette) = palette[i]

C11_Witness ==
  /\ PaletteReturned
  /\ Len(palette) = 3
  /\ palette[2] = palette[3]
  /\ palette[1] # palette[2]

(* the index of the box that a step of the loop replaced *)
FirstDiff(bs, bs2) ==
  CHOOSE k \in 1..Len(bs) : bs2[k] # bs[k] /\ \A i \in 1..(k - 1) : bs2[i] = bs[i]

SplitStep == pc = "loop" /\ boxes' # boxes

(* C12: medianCut terminates for every buffer and every integer maxColors:  *)
(* an iteration that does not stop the loop replaces one box by two         *)
(* non-empty boxes, so the box count grows by one and stays at most         *)
(* maxColors and at most the number of pixels; every started call reaches   *)
(* its return.                                                              *)
C12_MedianCutTerminates ==
  /\ [][ SplitStep =>
           /\ Len(boxes') = Len(boxes) + 1
           /\ Len(boxes') <= maxColors
           /\ Len(boxes') <= Len(pixels)
           /\ \A i \in 1..Len(boxes') : Len(boxes'[i]) >= 1 ]_vars
  /\ (pc = "call") ~> (pc = "classify")

C12_Witness ==
  /\ pc = "classify"
  /\ Len(pixels) = 2
  /\ maxColors = 3
  /\ Len(boxes) = 2

(* C13: for a non-empty buffer and maxColors >= 1 the palette has between 1 *)
(* and maxColors entries, entry i being the average of box i of the final   *)
(* box list (list order, not sorted by colour).                             *)
C13_PaletteSizeAndOrder ==
  (PaletteReturned /\ maxColors >= 1) =>
    /\ 1 <= Len(palette)
    /\ Len(palette) <= maxColors
    /\ Len(palette) = Len(boxes)
    /\ \A i \in 1..Len(palette) : palette[i] = average(boxes[i])

Brightness(p) == p[1] + p[2] + p[3]

C13_Witness ==
  /\ PaletteReturned /\ maxColors = 3
  /\ Len(palette) = 3
  /\ \/ Brightness(palette[1]) < Brightness(palette[2])
          /\ Brightness(palette[2]) > Brightness(palette[3])
     \/ Brightness(palette[1]) > Brightness(palette[2])
          /\ Brightness(palette[2]) < Brightness(palette[3])

(* C14: the grid has rows rows of cols codes, and colorMap[grid[r][c]] is   *)
(* the hex form of findNearestColor of the input pixel at index r*cols + c  *)
(* (r, c counted from 0).                                                   *)
C14_GridRowMajor ==
  (pc = "done" /\ ValidInput) =>
    /\ Len(result.grid) = targetHeight
    /\ \A r \in 1..targetHeight :
         /\ Len(result.grid[r]) = targetWidth
         /\ \A c \in 1..targetWidth :
              result.colorMap[result.grid[r][c]]
                = rgbToHex(findNearestColor(pixels[(r - 1) * targetWidth + (c - 1) + 1], palette))

C14_Witness ==
  /\ pc = "done" /\ ValidInput
  /\ targetHeight = 2 /\ targetWidth = 2
  /\ result.grid[1][2] # result.grid[2][1]
  /\ result.grid[1][1] = result.grid[2][1]

(* position (1-based) in the row-major scan where the colour of a code is first seen *)
FirstSeen(code) ==
  SetMin({ k \in 1..(targetHeight * targetWidth) :
             rgbToHex(findNearestColor(pixels[k], palette)) = result.colorMap[code] })

(* C15: codes are assigned in order of descending pixel count, and among    *)
(* equal counts in the order in which the colours are first seen in the     *)
(* row-major scan.                                                          *)
C15_CodesByCountThenFirstSeen ==
  (pc = "done" /\ ValidInput) =>
    \A i, j \in 1..result.numColors :
      i < j =>
        /\ result.colorCounts[CodeOf(i - 1)] >= result.colorCounts[CodeOf(j - 1)]
        /\ result.colorCounts[CodeOf(i - 1)] = result.colorCounts[CodeOf(j - 1)]
             => FirstSeen(CodeOf(i - 1)) < FirstSeen(CodeOf(j - 1))

C15_Witness ==
  /\ pc = "done" /\ ValidInput
  /\ result.numColors = 3
  /\ result.colorCounts[CodeOf(0)] = 2
  /\ result.colorCounts[CodeOf(1)] = 1
  /\ FirstSeen(CodeOf(0)) > FirstSeen(CodeOf(1))

CellCode(k) == result.grid[((k - 1) \div targetWidth) + 1][((k - 1) % targetWidth) + 1]

(* C16: codes stand for distinct resulting RGB values: distinct codes have  *)
(* distinct colours, two pixels have the same code exactly when they are    *)
(* classified to the same RGB value, and there are as many codes as         *)
(* distinct classified values (equal palette entries share one code).       *)
C16_CodesPerDistinctColor ==
  (pc = "done" /\ ValidInput) =>
    /\ \A a, b \in DOMAIN result.colorMap :
         result.colorMap[a] = result.colorMap[b] => a = b
    /\ \A k, m \in 1..Len(pixels) :
         (CellCode(k) = CellCode(m))
           <=> (findNearestColor(pixels[k], palette) = findNearestColor(pixels[m], palette))
    /\ Cardinality(DOMAIN result.colorMap)
         = Cardinality({ findNearestColor(pixels[k], palette) : k \in 1..Len(pixels) })

C16_Witness ==
  /\ pc = "done" /\ ValidInput
  /\ Len(palette) = 3
  /\ palette[1] = palette[2]
  /\ result.numColors = 2
  /\ pixels[1] # pixels[2]
  /\ CellCode(1) = CellCode(2)

(* C19: the box that an iteration splits has more than one pixel and has    *)
(* the greatest volume among the boxes with more than one pixel, and every  *)
(* such box of the same volume has a higher list index.                     *)
C19_SplitsLargestFirst ==
  [][ SplitStep =>
        LET k == FirstDiff(boxes, boxes')
        IN  /\ Len(boxes[k]) > 1
            /\ \A j \in 1..Len(boxes) :
                 Len(boxes[j]) > 1 =>
                   /\ volume(boxes[j]) <= volume(boxes[k])
                   /\ volume(boxes[j]) = volume(boxes[k]) => j >= k ]_vars

C19_Witness ==
  /\ pc = "loop"
  /\ Len(pixels) = 4
  /\ Len(boxes) = 3
  /\ Len(boxes[1]) = 1 /\ Len(boxes[2]) = 1 /\ Len(boxes[3]) = 2
  /\ volume(boxes[1] \o boxes[2]) = volume(boxes[3])

(* C20: a split step puts the two children of the selected box, first half  *)
(* then second half, at the index of that box, keeps every other box and    *)
(* their order, and makes the list one longer.                              *)
C20_SplitReplacesInPlace ==
  [][ SplitStep =>
        LET k == FirstDiff(boxes, boxes')
        IN  /\ Len(boxes') = Len(boxes) + 1
            /\ boxes'[k] = split(boxes[k])[1]
            /\ boxes'[k + 1] = split(boxes[k])[2]
            /\ \A i \in 1..(k - 1) : boxes'[i] = boxes[i]
            /\ \A i \in (k + 1)..Len(boxes) : boxes'[i + 1] = boxes[i] ]_vars

C20_Witness ==
  /\ pc = "loop"
  /\ Len(pixels) = 4
  /\ Len(boxes) = 3
  /\ Len(boxes[1]) = 2 /\ Len(boxes[2]) = 1 /\ Len(boxes[3]) = 1
  /\ boxes[2] # boxes[3]

(* a step of addProject *)
AddStep == lastAdded' # lastAdded

(* the longest list addProject tries to save *)
FirstTried == SubSeq(<< lastAdded' >> \o projects, 1, SetMin({ Len(projects) + 1, ProjectLimit }))

(* C18: the stored list never holds more than 20 projects and is ordered    *)
(* newest first; after an addProject whose save succeeds the project just   *)
(* added is at index 0 and the list is the new project followed by the      *)
(* former list without some of its tail (the oldest), nothing being dropped *)
(* below the limit when the first save succeeds.                            *)
C18_NewestFirstAtMostLimit ==
  /\ [](Len(projects) <= ProjectLimit)
  /\ [](\A i, j \in 1..Len(projects) : i < j => projects[i] > projects[j])
  /\ [][ (AddStep /\ saved') =>
           /\ projects'[1] = lastAdded'
           /\ \E n \in 1..ProjectLimit :
                projects' = SubSeq(<< lastAdded' >> \o projects, 1, n)
           /\ Len(FirstTried) <= quota => projects' = FirstTried ]_vars

C18_Witness ==
  /\ saved
  /\ Len(projects) = ProjectLimit
  /\ projects[1] = lastAdded
  /\ projects[1] = ProjectLimit + 2
  /\ projects[ProjectLimit] = 3

Returned == pc \in { "done", "shown" }

(* the cells in which two grids of the same shape differ *)
ChangedCells(g, g2) ==
  { rc \in UNION { { << r, c >> : c \in 1..Len(g[r]) } : r \in 1..Len(g) } :
      g2[rc[1]][rc[2]] # g[rc[1]][rc[2]] }

(* C17 as stated: once processImage has returned, no later operation       *)
(* changes the contents of the returned grid, colorMap, colorCounts and     *)
(* numColors.                                                               *)
C17_ReturnedNeverChanges ==
  [][ Returned => result' = result ]_vars

(* C17 amended: once processImage has returned, a project load or save      *)
(* changes none of the returned structures and no operation changes         *)
(* colorMap or numColors; a cell colour edit and its undo change the        *)
(* returned object in place: the grid in the edited cell, which takes a     *)
(* code of colorMap, and colorCounts in the counts of the old code (one     *)
(* less) and of the new code (one more).                                    *)
C17_OnlyCellEditsChangeReturned ==
  [][ (Returned /\ result' # result) =>
        /\ current = "returned"
        /\ Len(actionHistory') # Len(actionHistory)
        /\ result'.colorMap = result.colorMap
        /\ result'.numColors = result.numColors
        /\ Len(result'.grid) = Len(result.grid)
        /\ \A r \in 1..Len(result.grid) : Len(result'.grid[r]) = Len(result.grid[r])
        /\ Cardinality(ChangedCells(result.grid, result'.grid)) = 1
        /\ \A rc \in ChangedCells(result.grid, result'.grid) :
             LET oldCode == result.grid[rc[1]][rc[2]]
                 newCode == result'.grid[rc[1]][rc[2]]
             IN  /\ newCode \in DOMAIN result.colorMap
                 /\ result'.colorCounts =
                      [ code \in DOMAIN result.colorCounts |->
                          IF code = oldCode THEN result.colorCounts[code] - 1
                          ELSE IF code = newCode THEN result.colorCounts[code] + 1
                          ELSE result.colorCounts[code] ] ]_vars

C17_Witness ==
  /\ pc = "shown"
  /\ current = "loaded"
  /\ Len(actionHistory) = 1
  /\ listed # stored
  /\ result.numColors = 2
  /\ result # Assemble(pixels, palette, targetHeight, targetWidth)

(* the greatest of the three channel ranges of a box *)
MaxRange(box) == SetMax({ rRange(box), gRange(box), bRange(box) })

(* C21: longestAxis of every box is an axis of greatest range, R when the  *)
(* R range is not below the G and the B range, otherwise G when the G range *)
(* is not below the B range, otherwise B.                                   *)
C21_LongestAxisPrefersRGB ==
  \A k \in 1..Len(boxes) :
    LET box == boxes[k]
        axis == longestAxis(box)
    IN  /\ axis \in 0..2
        /\ chanRange(box, axis) = MaxRange(box)
        /\ (axis = 0) <=> (rRange(box) >= gRange(box) /\ rRange(box) >= bRange(box))
        /\ (axis = 1) <=> (~(rRange(box) >= gRange(box) /\ rRange(box) >= bRange(box))
                             /\ gRange(box) >= bRange(box))

C21_Witness ==
  /\ pc = "loop"
  /\ Len(boxes) = 2
  /\ rRange(boxes[1]) = gRange(boxes[1]) /\ gRange(boxes[1]) > 0
  /\ gRange(boxes[2]) = bRange(boxes[2]) /\ gRange(boxes[2]) > rRange(boxes[2])

(* position of element j of s in the stable ascending order on a channel *)
StableRank(s, j, axis) ==
  Cardinality({ i \in 1..Len(s) : s[i][axis + 1] < s[j][axis + 1] })
    + Cardinality({ i \in 1..j : s[i][axis + 1] = s[j][axis + 1] })

(* C22: a split of a box of n >= 2 pixels yields the first floor(n/2) and   *)
(* the remaining pixels of the box's pixels in ascending order of the       *)
(* longestAxis channel, equal values keeping the parent's relative order;   *)
(* the array the parent holds (the input buffer for the first box) is not   *)
(* reordered.                                                               *)
C22_SplitStableHalves ==
  [][ SplitStep =>
        LET k == FirstDiff(boxes, boxes')
            parent == boxes[k]
            n == Len(parent)
            axis == longestAxis(parent)
            halves == boxes'[k] \o boxes'[k + 1]
        IN  /\ n >= 2
            /\ Len(boxes'[k]) = n \div 2
            /\ Len(boxes'[k + 1]) = n - (n \div 2)
            /\ \A j \in 1..n : halves[StableRank(parent, j, axis)] = parent[j]
            /\ pixels' = pixels ]_vars

C22_Witness ==
  /\ pc = "loop"
  /\ Len(pixels) = 3
  /\ Len(boxes) = 2
  /\ pixels[1][1] = pixels[3][1]
  /\ pixels[1] # pixels[3]
  /\ pixels[2][1] > pixels[1][1]
  /\ longestAxis(pixels) = 0
  /\ boxes[1] = << pixels[1] >>
  /\ boxes[2] = << pixels[3], pixels[2] >>

(* C23: every box in the list is non-empty at every step, and a box that a  *)
(* step splits has at least two pixels.                                     *)
C23_BoxesNonEmpty ==
  /\ [](\A k \in 1..Len(boxes) : Len(boxes[k]) >= 1)
  /\ [][ SplitStep => Len(boxes[FirstDiff(boxes, boxes')]) >= 2 ]_vars

C23_Witness ==
  /\ pc = "loop"
  /\ Len(pixels) = 3
  /\ maxColors = 3
  /\ Len(boxes) = 3
  /\ \A k \in 1..3 : Len(boxes[k]) = 1

(* C24: each component of the average of a box is the channel mean rounded  *)
(* to the nearest integer, exact halves up (floor(sum/n + 1/2)), lies in    *)
(* 0..255 and between the least and the greatest value of the channel.      *)
C24_AverageHalfUpInRange ==
  PaletteReturned =>
    \A i \in 1..Len(boxes) :
      \A c \in 0..2 :
        LET a == palette[i][c + 1]
            sum == ChanSum(boxes[i], c)
            n == Len(boxes[i])
        IN  /\ 2 * n * a <= 2 * sum + n
            /\ 2 * sum + n < 2 * n * (a + 1)
            /\ 0 <= a /\ a <= 255
            /\ SetMin(Chan(boxes[i], c)) <= a
            /\ a <= SetMax(Chan(boxes[i], c))

C24_Witness ==
  /\ PaletteReturned
  /\ \E i \in 1..Len(boxes) :
       \E c \in 0..2 :
         /\ (2 * ChanSum(boxes[i], c)) % (2 * Len(boxes[i])) = Len(boxes[i])
         /\ 2 * palette[i][c + 1] * Len(boxes[i]) = 2 * ChanSum(boxes[i], c) + Len(boxes[i])

(* the lowest index of a palette entry at the least distance from p *)
FirstLeast(p, pal) ==
  CHOOSE i \in 1..Len(pal) :
    /\ \A j \in 1..Len(pal) : Dist(p, pal[i]) <= Dist(p, pal[j])
    /\ \A j \in 1..(i - 1) : Dist(p, pal[j]) > Dist(p, pal[i])

(* C25: for a non-empty palette findNearestColor returns the entry of least *)
(* squared distance to the pixel, and of several such entries the one with  *)
(* the lowest index.                                                        *)
C25_NearestIsFirstLeast ==
  (PaletteReturned /\ Len(palette) > 0) =>
    \A k \in 1..Len(pixels) :
      findNearestColor(pixels[k], palette) = palette[FirstLeast(pixels[k], palette)]

C25_Witness ==
  /\ PaletteReturned
  /\ \E k \in 1..Len(pixels) :
       \E i, j \in 1..Len(palette) :
         /\ i < j
         /\ palette[i] # palette[j]
         /\ Dist(pixels[k], palette[i]) = Dist(pixels[k], palette[j])
         /\ FirstLeast(pixels[k], palette) = i

(* C26: for a buffer of n >= 1 pixels and maxColors >= 1 the palette has    *)
(* exactly min(maxColors, n) entries: medianCut returns fewer than          *)
(* maxColors only when every box holds exactly one pixel, boxes of volume 0 *)
(* being split like any other.                                              *)
C26_PaletteSizeIsMin ==
  (PaletteReturned /\ maxColors >= 1) =>
    /\ Len(palette) = SetMin({ maxColors, Len(pixels) })
    /\ Len(boxes) < maxColors => \A k \in 1..Len(boxes) : Len(boxes[k]) = 1

C26_Witness ==
  /\ PaletteReturned
  /\ Uniform(pixels)
  /\ Len(pixels) = 4
  /\ maxColors = 3
  /\ Len(palette) = 3

RECURSIVE Flatten(_)
Flatten(bs) == IF bs = <<>> THEN <<>> ELSE Flatten(SubSeq(bs, 1, Len(bs) - 1)) \o bs[Len(bs)]

CountIn(s, v) == Cardinality({ i \in 1..Len(s) : s[i] = v })

(* C27: at every step of medianCut the boxes hold, with multiplicity,       *)
(* exactly the pixels of the input buffer, and the input buffer keeps its   *)
(* order.                                                                   *)
C27_BoxesPartitionInput ==
  /\ []((pc \in { "loop", "classify", "done", "threw" } /\ Len(pixels) > 0) =>
          /\ Len(Flatten(boxes)) = Len(pixels)
          /\ \A v \in PixelValues : CountIn(Flatten(boxes), v) = CountIn(pixels, v))
  /\ [][ pixels' = pixels ]_vars

C27_Witness ==
  /\ pc = "loop"
  /\ Len(pixels) = 4
  /\ Len(boxes) = 3
  /\ pixels[1] = pixels[3]
  /\ pixels[1] # pixels[2]
  /\ Flatten(boxes) # pixels

(* the cells of a grid *)
Cells(g) == UNION { { << r, c >> : c \in 1..Len(g[r]) } : r \in 1..Len(g) }

CellsWith(g, code) == Cardinality({ rc \in Cells(g) : g[rc[1]][rc[2]] = code })

(* the grid with the colour changes of a history taken back, last first *)
RECURSIVE Reverted(_, _)
Reverted(g, history) ==
  IF history = <<>> THEN g
  ELSE LET a == history[Len(history)]
       IN  Reverted([ g EXCEPT ![a.rowIdx + 1][a.colIdx + 1] = a.prevCode ],
                    SubSeq(history, 1, Len(history) - 1))

(* a step of undoLastAction *)
UndoStep ==
  /\ pc = "shown"
  /\ current' = current
  /\ currentResult' # currentResult
  /\ Len(actionHistory') = Len(actionHistory) - 1

(* C28: while a pattern is shown, through any colour changes and undos,    *)
(* colorCounts[code] is the number of grid cells holding the code for every *)
(* code of colorMap, so the counts sum to the number of cells; an undo puts *)
(* the previous code back into the cell and moves one count back, and the   *)
(* converted grid with the changes of the history taken back is the grid    *)
(* processImage returned.                                                   *)
C28_CountsFollowGrid ==
  /\ [](pc = "shown" =>
          /\ \A code \in DOMAIN currentResult.colorMap :
               currentResult.colorCounts[code] = CellsWith(currentResult.grid, code)
          /\ SumOver(currentResult.colorCounts, DOMAIN currentResult.colorMap)
               = Cardinality(Cells(currentResult.grid)))
  /\ []((pc = "shown" /\ current = "returned") =>
          Reverted(result.grid, actionHistory)
            = Assemble(pixels, palette, targetHeight, targetWidth).grid)
  /\ [][ UndoStep =>
           LET a == actionHistory[Len(actionHistory)]
               before == currentResult
               after == currentResult'
           IN  /\ after.grid = [ before.grid EXCEPT ![a.rowIdx + 1][a.colIdx + 1] = a.prevCode ]
               /\ after.colorCounts[a.prevCode] = before.colorCounts[a.prevCode] + 1
               /\ after.colorCounts[a.nextCode] = before.colorCounts[a.nextCode] - 1 ]_vars

C28_Witness ==
  /\ pc = "shown"
  /\ current = "returned"
  /\ actionHistory = <<>>
  /\ result.numColors = 2
  /\ stored # NoProject
  /\ stored # ProjectOf(result)

(* the number of stored projects with an id *)
StoredWithId(ps, id) == Cardinality({ k \in 1..Len(ps) : ps[k].id = id })

(* C29: when the project being edited, which is stored once, is converted   *)
(* again, the stored list afterwards holds exactly one project with the id  *)
(* currentProjectId, also when the save inside addProject fails.            *)
C29_ReconvertKeepsOneCopy ==
  [][ (clock' # clock /\ currentProjectId # 0
         /\ StoredWithId(projects, currentProjectId) = 1) =>
        StoredWithId(projects', currentProjectId') = 1 ]_vars

(* C30: while New Project has been clicked and no image chosen after the   *)
(* click has finished loading, the convert button is disabled and none of  *)
(* the preset, dimension, colour and convert step groups is visible        *)
C30_HiddenUntilNewImageLoaded ==
  newProjectAt >= 0 => (convertDisabled /\ visibleSteps = {})

=============================================================================
